---- MODULE Spec2Model ----
(***************************************************************************)
(* Model of validate_rules.py: RuleValidator (validate_file, validate_all, *)
(* print_report) and main.                                                 *)
(*                                                                         *)
(* A file's text is a sequence of lexemes: the lexemes are the strings the *)
(* regular expressions of validate_file distinguish (the delimiter, the    *)
(* three keys, the boolean literals, brackets, quotes, blank, newline) and *)
(* ordinary text characters.  Every regular expression is modelled by what *)
(* Python's re does with it on such a text: greedy and lazy quantifiers,   *)
(* backtracking, MULTILINE anchors, DOTALL, leftmost match.                *)
(***************************************************************************)
EXTENDS Integers, Sequences, FiniteSets, TLC

VARIABLES
  rules_dir,   \* the directory on disk: [exists, files: path -> file]
  stats,       \* self.stats
  errors,      \* self.errors
  warnings,    \* self.warnings
  pc,          \* position of the process
  mdc_files,   \* validate_all: the list rglob returned, in discovery order
  queue,       \* validate_all: what is left of sorted(mdc_files)
  calls,       \* the paths validate_file was called on, in call order
  is_valid,    \* main: the value validate_all returned (None before)
  banner,      \* print_report: which closing message was printed (None before)
  exit_code,   \* the process exit status (None before exit)
  run,         \* which run over the directory this is
  first_report,\* what the first run ended with (None during the first run)
  input,       \* validate_file: the file of the last call (None when consumed)
  ret          \* validate_file: the last returned (is_valid, frontmatter)

vars == <<rules_dir, stats, errors, warnings, pc, mdc_files, queue, calls,
          is_valid, banner, exit_code, run, first_report, input, ret>>

(***************************************************************************)
(* Lexemes                                                                 *)
(***************************************************************************)
NL     == "\n"
SP     == " "
DASHES == "---"
KDESC  == "description:"
KAA    == "alwaysApply:"
KGLOBS == "globs:"
LB     == "["
RB     == "]"
DQ     == "\""
SQ     == "'"
COMMA  == ","
TXT    == "a"
STAR   == "*"

None    == <<>>
Some(v) == <<v>>

Min(S) == CHOOSE x \in S : \A y \in S : x <= y
Max(S) == CHOOSE x \in S : \A y \in S : x >= y

\* \s of the regular expressions, and the characters str.strip() removes
IsSpace(t) == t \in {SP, NL}

\* the first index >= i that holds no white space (Len(s)+1 if there is none):
\* where a greedy \s* started at i stops
RECURSIVE SkipSpace(_, _)
SkipSpace(s, i) ==
  IF i > Len(s) \/ ~IsSpace(s[i]) THEN i ELSE SkipSpace(s, i + 1)

\* the first index >= i that holds a newline (Len(s)+1 if there is none):
\* where a greedy .+ or .* started at i stops without DOTALL; '$' matches there
RECURSIVE LineEnd(_, _)
LineEnd(s, i) ==
  IF i > Len(s) \/ s[i] = NL THEN i ELSE LineEnd(s, i + 1)

\* '^' under re.MULTILINE
AtLineStart(s, p) == p = 1 \/ s[p - 1] = NL

\* str.strip()
RECURSIVE SkipSpaceBack(_, _)
SkipSpaceBack(s, j) ==
  IF j = 0 \/ ~IsSpace(s[j]) THEN j ELSE SkipSpaceBack(s, j - 1)

strip(s) == SubSeq(s, SkipSpace(s, 1), SkipSpaceBack(s, Len(s)))

\* str.lower() on a boolean literal
lower(t) == IF t \in {"true", "True", "TRUE"} THEN "true" ELSE "false"

BoolLiterals == {"true", "false", "True", "FALSE"}

(***************************************************************************)
(* validate_file: the regular expressions                                  *)
(***************************************************************************)

\* content.startswith("---")
startswith_dashes(content) == Len(content) >= 1 /\ content[1] = DASHES

\* re.match(r"^---\n(.*?)\n---\n", content, re.DOTALL): the lazy group ends at
\* the first "\n---\n" that follows the opening "---\n".
\* None, or [group: the header block, end: the index of the last lexeme matched]
frontmatter_match(content) ==
  LET closers == {i \in 3..(Len(content) - 2) :
                    /\ content[i] = NL
                    /\ content[i + 1] = DASHES
                    /\ content[i + 2] = NL}
  IN  IF Len(content) >= 2 /\ content[1] = DASHES /\ content[2] = NL
         /\ closers # {}
      THEN Some([group |-> SubSeq(content, 3, Min(closers) - 1),
                 end   |-> Min(closers) + 2])
      ELSE None

\* r'^description:\s*(.+)$' at the key p: \s* is greedy and also takes
\* newlines; it gives characters back until (.+) finds a character that is
\* not a newline.  The set of indexes at which (.+) can start.
DescriptionStarts(s, p) ==
  {k \in (p + 1)..SkipSpace(s, p + 1) : k <= Len(s) /\ s[k] # NL}

\* re.search(r'^description:\s*(.+)$', frontmatter_str, re.MULTILINE):
\* None or Some(group(1))
description_match(s) ==
  LET keys == {p \in 1..Len(s) :
                 AtLineStart(s, p) /\ s[p] = KDESC /\ DescriptionStarts(s, p) # {}}
  IN  IF keys = {} THEN None
      ELSE LET k == Max(DescriptionStarts(s, Min(keys)))
           IN  Some(SubSeq(s, k, LineEnd(s, k) - 1))

\* lines 59-64: strip, then remove one layer of surrounding quotes
desc_value(group) ==
  LET v == strip(group)
  IN  IF Len(v) >= 1 /\ v[1] = DQ /\ v[Len(v)] = DQ THEN SubSeq(v, 2, Len(v) - 1)
      ELSE IF Len(v) >= 1 /\ v[1] = SQ /\ v[Len(v)] = SQ THEN SubSeq(v, 2, Len(v) - 1)
      ELSE v

\* re.search(r'^alwaysApply:\s*(true|false)$', s, MULTILINE | IGNORECASE):
\* None or Some(group(1))
always_apply_match(s) ==
  LET keys == {p \in 1..Len(s) :
                 /\ AtLineStart(s, p) /\ s[p] = KAA
                 /\ LET w == SkipSpace(s, p + 1)
                    IN  /\ w <= Len(s)
                        /\ s[w] \in BoolLiterals
                        /\ (w = Len(s) \/ s[w + 1] = NL)}
  IN  IF keys = {} THEN None
      ELSE Some(s[SkipSpace(s, Min(keys) + 1)])

\* globs_match without re.DOTALL: the ']' has to be on the line of the '['
globs_match_oneline(s) ==
  LET Closers(w) == {r \in (w + 1)..(LineEnd(s, w) - 1) : s[r] = RB}
      keys == {p \in 1..Len(s) :
                 /\ AtLineStart(s, p) /\ s[p] = KGLOBS
                 /\ LET w == SkipSpace(s, p + 1)
                    IN  w <= Len(s) /\ s[w] = LB /\ Closers(w) # {}}
  IN  IF keys = {} THEN None
      ELSE LET w == SkipSpace(s, Min(keys) + 1)
           IN  Some(SubSeq(s, w + 1, Min(Closers(w)) - 1))

\* re.search(r'^globs:\s*\[(.*?)\]', s, MULTILINE | DOTALL): the lazy group
\* ends at the first ']' after the '[', on whatever line.  None or Some(group(1))
globs_match(s) ==
  LET Closers(w) == {r \in (w + 1)..Len(s) : s[r] = RB}
      keys == {p \in 1..Len(s) :
                 /\ AtLineStart(s, p) /\ s[p] = KGLOBS
                 /\ LET w == SkipSpace(s, p + 1)
                    IN  w <= Len(s) /\ s[w] = LB /\ Closers(w) # {}}
  IN  IF keys = {} THEN None
      ELSE LET w == SkipSpace(s, Min(keys) + 1)
           IN  Some(SubSeq(s, w + 1, Min(Closers(w)) - 1))

\* re.search(r'^globs:\s*\[?\s*\]', s, re.MULTILINE): matched or not
globs_simple(s) ==
  \E p \in 1..Len(s) :
    /\ AtLineStart(s, p) /\ s[p] = KGLOBS
    /\ LET w == SkipSpace(s, p + 1)
       IN  /\ w <= Len(s)
           /\ \/ s[w] = RB
              \/ /\ s[w] = LB
                 /\ SkipSpace(s, w + 1) <= Len(s)
                 /\ s[SkipSpace(s, w + 1)] = RB

IsQuote(t) == t \in {DQ, SQ}

\* re.findall(r'["\']([^"\']+)["\']', s) from index i on: a quote, one or more
\* characters that are no quote, a quote (of either kind)
RECURSIVE findall_items(_, _)
findall_items(s, i) ==
  IF i > Len(s) THEN <<>>
  ELSE IF ~IsQuote(s[i]) THEN findall_items(s, i + 1)
  ELSE LET closing == {j \in (i + 1)..Len(s) : IsQuote(s[j])}
       IN  IF closing = {} \/ Min(closing) = i + 1
           THEN findall_items(s, i + 1)
           ELSE <<SubSeq(s, i + 1, Min(closing) - 1)>>
                  \o findall_items(s, Min(closing) + 1)

\* lines 76-90: frontmatter["globs"], None or Some(list of items)
parse_globs(s) ==
  LET m == globs_match(s)
  IN  IF m # None
      THEN IF strip(m[1]) # <<>> THEN Some(findall_items(strip(m[1]), 1))
           ELSE Some(<<>>)
      ELSE IF globs_simple(s) THEN Some(<<>>) ELSE None

\* lines 57-90: the parsed frontmatter; every field is None or Some(value)
parse_frontmatter(s) ==
  [description |-> IF description_match(s) # None
                   THEN Some(desc_value(description_match(s)[1]))
                   ELSE None,
   alwaysApply |-> IF always_apply_match(s) # None
                   THEN Some(lower(always_apply_match(s)[1]) = "true")
                   ELSE None,
   globs       |-> parse_globs(s)]

(***************************************************************************)
(* RuleValidator                                                           *)
(***************************************************************************)

\* __init__, lines 15-24
InitStats ==
  [total_files |-> 0, valid_files |-> 0, invalid_files |-> 0,
   files_without_description |-> 0, files_without_alwaysApply |-> 0,
   files_with_invalid_yaml |-> 0]

NewValidator == [stats |-> InitStats, errors |-> <<>>, warnings |-> <<>>]

\* an appended message: which message it is and the path it names
Msg(kind, path) == [kind |-> kind, path |-> path]

\* the "{}" returned by the early returns of validate_file
EmptyDict == <<>>

\* reject that forgets to count the file invalid
reject_uncounted(self, file_path, kind) ==
  [self   |-> [self EXCEPT !.errors = Append(@, Msg(kind, file_path))],
   result |-> [is_valid |-> FALSE, frontmatter |-> EmptyDict]]

\* lines 33-35, 39-41, 46-48: record one error, count the file invalid,
\* return (False, {})
reject(self, file_path, kind) ==
  [self   |-> [self EXCEPT !.errors = Append(@, Msg(kind, file_path)),
                           !.stats.invalid_files = @ + 1],
   result |-> [is_valid |-> FALSE, frontmatter |-> EmptyDict]]

\* line 99: not description or not description.strip()
is_blank(value) == value = <<>> \/ strip(value) = <<>>

\* required_checks that counts a blank description as a missing one
required_checks_blank_counted(frontmatter, file_path) ==
  LET no_desc    == frontmatter.description = None
      blank_desc == ~no_desc /\ is_blank(frontmatter.description[1])
      no_always  == frontmatter.alwaysApply = None
  IN  [errors |->
         (IF no_desc THEN <<Msg("missing_description", file_path)>>
          ELSE IF blank_desc THEN <<Msg("empty_description", file_path)>>
          ELSE <<>>)
         \o (IF no_always THEN <<Msg("missing_alwaysApply", file_path)>> ELSE <<>>),
       without_description |-> IF no_desc \/ blank_desc THEN 1 ELSE 0,
       without_alwaysApply |-> IF no_always THEN 1 ELSE 0,
       has_errors |-> no_desc \/ blank_desc \/ no_always]

\* required_checks that reports a missing alwaysApply without setting has_errors
required_checks_unflagged(frontmatter, file_path) ==
  LET no_desc    == frontmatter.description = None
      blank_desc == ~no_desc /\ is_blank(frontmatter.description[1])
      no_always  == frontmatter.alwaysApply = None
  IN  [errors |->
         (IF no_desc THEN <<Msg("missing_description", file_path)>>
          ELSE IF blank_desc THEN <<Msg("empty_description", file_path)>>
          ELSE <<>>)
         \o (IF no_always THEN <<Msg("missing_alwaysApply", file_path)>> ELSE <<>>),
       without_description |-> IF no_desc THEN 1 ELSE 0,
       without_alwaysApply |-> IF no_always THEN 1 ELSE 0,
       has_errors |-> no_desc \/ blank_desc]

\* lines 93-111: the checks of the required properties.  The messages to
\* append, the counters to increment and has_errors
required_checks(frontmatter, file_path) ==
  LET no_desc    == frontmatter.description = None
      blank_desc == ~no_desc /\ is_blank(frontmatter.description[1])
      no_always  == frontmatter.alwaysApply = None
      \* line 109: the parsed globs is None or a list, never anything else
      bad_globs  == FALSE
  IN  [errors |->
         (IF no_desc THEN <<Msg("missing_description", file_path)>>
          ELSE IF blank_desc THEN <<Msg("empty_description", file_path)>>
          ELSE <<>>)
         \o (IF no_always THEN <<Msg("missing_alwaysApply", file_path)>> ELSE <<>>)
         \o (IF bad_globs THEN <<Msg("globs_not_list", file_path)>> ELSE <<>>),
       without_description |-> IF no_desc THEN 1 ELSE 0,
       without_alwaysApply |-> IF no_always THEN 1 ELSE 0,
       has_errors |-> no_desc \/ blank_desc \/ no_always \/ bad_globs]

\* lines 114-116: the warning for an empty body, if any
body_warnings(content, match_end, file_path) ==
  IF strip(SubSeq(content, match_end + 1, Len(content))) = <<>>
  THEN <<Msg("no_content", file_path)>>
  ELSE <<>>

\* finish that counts only the valid files
finish_uncounted(self, has_errors, frontmatter) ==
  [self   |-> IF has_errors
              THEN self
              ELSE [self EXCEPT !.stats.valid_files = @ + 1],
   result |-> [is_valid |-> ~has_errors, frontmatter |-> frontmatter]]

\* lines 118-123: count the file and return
finish(self, has_errors, frontmatter) ==
  [self   |-> IF has_errors
              THEN [self EXCEPT !.stats.invalid_files = @ + 1]
              ELSE [self EXCEPT !.stats.valid_files = @ + 1],
   result |-> [is_valid |-> ~has_errors, frontmatter |-> frontmatter]]

\* validate_file, lines 26-123.  file is what is at file_path:
\* [readable, content]; read_text raises on a file that is not readable
validate_file(self, file_path, file) ==
  LET counted == [self EXCEPT !.stats.total_files = @ + 1]
  IN  IF ~file.readable THEN reject(counted, file_path, "unreadable")
      ELSE IF ~startswith_dashes(file.content)
      THEN reject(counted, file_path, "missing_frontmatter")
      ELSE IF frontmatter_match(file.content) = None
      THEN reject(counted, file_path, "malformed_frontmatter")
      ELSE
        LET m           == frontmatter_match(file.content)[1]
            frontmatter == parse_frontmatter(m.group)
            chk         == required_checks(frontmatter, file_path)
            checked     ==
              [counted EXCEPT
                 !.errors = @ \o chk.errors,
                 !.stats.files_without_description = @ + chk.without_description,
                 !.stats.files_without_alwaysApply = @ + chk.without_alwaysApply,
                 !.warnings = @ \o body_warnings(file.content, m.end, file_path)]
        IN  finish(checked, chk.has_errors, frontmatter)

\* sorted(), line 141, on paths
RECURSIVE insert_sorted(_, _)
insert_sorted(x, s) ==
  IF s = <<>> THEN <<x>>
  ELSE IF x <= Head(s) THEN <<x>> \o s
  ELSE <<Head(s)>> \o insert_sorted(x, Tail(s))

\* the loop walking mdc_files as rglob returned it
unsorted(s) == s

RECURSIVE sorted(_)
sorted(s) == IF s = <<>> THEN <<>> ELSE insert_sorted(Head(s), sorted(Tail(s)))

\* the name the error messages of validate_all carry: self.rules_dir
RulesDirPath == 0

\* validate_all_entry without the check of lines 134-136
validate_all_entry_unchecked(self, dir_exists, listing) ==
  IF ~dir_exists
  THEN [self    |-> [self EXCEPT !.errors = Append(@, Msg("dir_missing", RulesDirPath))],
        proceed |-> FALSE, queue |-> <<>>]
  ELSE [self |-> self, proceed |-> TRUE, queue |-> sorted(listing)]

\* validate_all, lines 127-138: what happens before the loop, given the list
\* rglob returned.  [self, proceed: the loop is entered, queue: what it walks]
validate_all_entry(self, dir_exists, listing) ==
  IF ~dir_exists
  THEN [self    |-> [self EXCEPT !.errors = Append(@, Msg("dir_missing", RulesDirPath))],
        proceed |-> FALSE, queue |-> <<>>]
  ELSE IF listing = <<>>
  THEN [self    |-> [self EXCEPT !.errors = Append(@, Msg("no_mdc_files", RulesDirPath))],
        proceed |-> FALSE, queue |-> <<>>]
  ELSE [self |-> self, proceed |-> TRUE, queue |-> sorted(listing)]

\* validate_all failing on warnings too
validate_all_result_strict(self) == Len(self.errors) = 0 /\ Len(self.warnings) = 0

\* line 151: return len(self.errors) == 0
validate_all_result(self) == Len(self.errors) = 0

\* print_report, lines 181-186: the closing message
closing_message(self) ==
  IF self.errors = <<>> /\ self.warnings = <<>> THEN "all_clean"
  ELSE IF self.errors = <<>> THEN "valid_with_warnings"
  ELSE "errors_present"

\* line 196: exit(0 if is_valid else 1)
exit_status(valid) == IF valid THEN 0 ELSE 1

(***************************************************************************)
(* The files                                                               *)
(***************************************************************************)
MaxFiles       == 2   \* paths a directory may hold
MaxRuns        == 2   \* runs of main over one directory
MaxCalls       == 2   \* calls of validate_file on one validator (FileSpec)
MaxHeaderLines == 2   \* lines of a header block put together from HeaderLines
MaxGlobItems   == 2   \* items of a written globs list

\* a path is its rank in the order sorted() puts paths in
Paths == 1..MaxFiles

File(content) == [readable |-> TRUE, content |-> content]
\* a file read_text raises on (no permission, not UTF-8, a directory)
Unreadable    == [readable |-> FALSE, content |-> <<>>]

\* the permutations of a set: what rglob may return
Perms(S) ==
  {f \in [1..Cardinality(S) -> S] : \A i, j \in DOMAIN f : i # j => f[i] # f[j]}

RECURSIVE Join(_)
\* the lines of a text, a newline between two lines
Join(lines) ==
  IF lines = <<>> THEN <<>>
  ELSE IF Len(lines) = 1 THEN lines[1]
  ELSE lines[1] \o <<NL>> \o Join(Tail(lines))

RECURSIVE Flatten(_)
Flatten(seqs) == IF seqs = <<>> THEN <<>> ELSE Head(seqs) \o Flatten(Tail(seqs))

\* the files of the directories main runs over: one per outcome of validate_file
RunFiles ==
  { Unreadable,
    File(<<TXT, NL>>),
    File(<<DASHES, NL, KDESC, SP, TXT, NL>>),
    File(<<DASHES, NL, KAA, SP, "true", NL, DASHES, NL, TXT, NL>>),
    File(<<DASHES, NL, KDESC, SP, DQ, DQ, NL, KAA, SP, "true", NL, DASHES, NL>>),
    File(<<DASHES, NL, KDESC, SP, TXT, NL, DASHES, NL, TXT, NL>>),
    File(<<DASHES, NL, KDESC, SP, TXT, NL, KAA, SP, "true", NL, DASHES, NL, TXT, NL>>),
    File(<<DASHES, NL, KDESC, SP, TXT, NL, KAA, SP, "false", NL, DASHES, NL>>) }

Directories ==
  {[exists |-> FALSE, files |-> <<>>]}
    \cup {[exists |-> TRUE, files |-> f] :
            f \in UNION {[S -> RunFiles] : S \in SUBSET Paths}}

\* lines a header block is put together from
HeaderLines ==
  { <<KDESC, SP, TXT>>,
    <<KDESC>>,
    <<KDESC, SP>>,
    <<KDESC, SP, DQ, DQ>>,
    <<KAA, SP, "true">>,
    <<KGLOBS, SP, LB>>,
    <<DQ, TXT, DQ, RB>> }

\* what stands before and after the lines: [open, close]
Frames ==
  { [open |-> <<DASHES, NL>>,          close |-> <<NL, DASHES, NL, TXT, NL>>],
    [open |-> <<DASHES, NL>>,          close |-> <<NL, DASHES, NL, SP, NL>>],
    [open |-> <<DASHES, NL>>,          close |-> <<NL, DASHES>>],
    [open |-> <<DASHES, NL>>,          close |-> <<NL>>],
    [open |-> <<DASHES, TXT, NL>>,     close |-> <<NL, DASHES, NL, TXT, NL>>],
    [open |-> <<TXT, NL, DASHES, NL>>, close |-> <<NL, DASHES, NL, TXT, NL>>] }

AssembledContents ==
  {fr.open \o Join(lines) \o fr.close :
     fr \in Frames,
     lines \in UNION {[1..n -> HeaderLines] : n \in 0..MaxHeaderLines}}

\* Files written to the schema: a description, a boolean alwaysApply, and
\* possibly a globs list, between two delimiter lines, then a body.
DescTexts  == {<<TXT>>, <<TXT, SP, TXT>>}
GlobItems  == {<<STAR, TXT>>, <<TXT, LB, TXT, RB>>}
\* the items that hold no quote and no bracket
PlainItems == {<<STAR, TXT>>}

Written ==
  [description : DescTexts,
   quote       : {"", DQ, SQ},
   alwaysApply : {"true", "FALSE"},
   globs       : {None} \cup {Some(l) : l \in UNION {[1..n -> GlobItems] :
                                                      n \in 0..MaxGlobItems}},
   multiline   : BOOLEAN,
   body        : {<<>>, <<TXT, NL>>}]

Quoted(q, text) == IF q = "" THEN text ELSE <<q>> \o text \o <<q>>

\* the globs list on one line:      globs: ["a", "b"]
\* the globs list on several lines: globs: [
\*                                    "a",
\*                                    "b"
\*                                  ]
RenderGlobs(items, multiline) ==
  LET n       == Len(items)
      Item(i) == <<DQ>> \o items[i] \o <<DQ>>
      Sep(i)  == IF i < n THEN <<COMMA>> ELSE <<>>
  IN  IF multiline
      THEN <<KGLOBS, SP, LB, NL>>
             \o Flatten([i \in 1..n |-> <<SP, SP>> \o Item(i) \o Sep(i) \o <<NL>>])
             \o <<RB>>
      ELSE <<KGLOBS, SP, LB>>
             \o Flatten([i \in 1..n |-> Item(i) \o Sep(i) \o (IF i < n THEN <<SP>> ELSE <<>>)])
             \o <<RB>>

Render(w) ==
  <<DASHES, NL>>
    \o <<KDESC, SP>> \o Quoted(w.quote, w.description) \o <<NL>>
    \o <<KAA, SP, w.alwaysApply, NL>>
    \o (IF w.globs = None THEN <<>> ELSE RenderGlobs(w.globs[1], w.multiline) \o <<NL>>)
    \o <<DASHES, NL>>
    \o w.body

\* the values written in Render(w)
WrittenValues(w) ==
  [description |-> Some(w.description),
   alwaysApply |-> Some(w.alwaysApply = "true"),
   globs       |-> w.globs]

\* the files validate_file is called on in FileSpec
InputFiles ==
  {Unreadable} \cup {File(<<>>)}
    \cup {File(c) : c \in AssembledContents}
    \cup {File(Render(w)) : w \in Written}

(***************************************************************************)
(* Spec: main, run over a directory, and run again over the same directory *)
(***************************************************************************)
Self == [stats |-> stats, errors |-> errors, warnings |-> warnings]

Fresh ==
  /\ stats = InitStats /\ errors = <<>> /\ warnings = <<>>
  /\ mdc_files = <<>> /\ queue = <<>> /\ calls = <<>>
  /\ is_valid = None /\ banner = None /\ exit_code = None
  /\ input = None /\ ret = None

Init ==
  /\ rules_dir \in Directories
  /\ pc = "main"
  /\ run = 1
  /\ first_report = None
  /\ Fresh

\* validate_all up to the loop, lines 127-138
ValidateAllEntry ==
  /\ pc = "main"
  /\ \E listing \in Perms(DOMAIN rules_dir.files) :
       \E e \in {validate_all_entry(Self, rules_dir.exists, listing)} :
           /\ mdc_files' = listing
           /\ queue' = e.queue
           /\ stats' = e.self.stats
           /\ errors' = e.self.errors
           /\ warnings' = e.self.warnings
           /\ pc' = IF e.proceed THEN "loop" ELSE "returned"
           /\ is_valid' = IF e.proceed THEN None ELSE Some(FALSE)
  /\ UNCHANGED <<rules_dir, calls, banner, exit_code, run, first_report, input, ret>>

\* one iteration of the loop, lines 141-149
ValidateNext ==
  /\ pc = "loop"
  /\ queue # <<>>
  /\ \E r \in {validate_file(Self, Head(queue), rules_dir.files[Head(queue)])} :
         /\ stats' = r.self.stats
         /\ errors' = r.self.errors
         /\ warnings' = r.self.warnings
         /\ input' = Some(rules_dir.files[Head(queue)])
         /\ ret' = Some(r.result)
         /\ calls' = Append(calls, Head(queue))
  /\ queue' = Tail(queue)
  /\ UNCHANGED <<rules_dir, pc, mdc_files, is_valid, banner, exit_code, run, first_report>>

\* the end of the loop, line 151
ValidateAllReturn ==
  /\ pc = "loop"
  /\ queue = <<>>
  /\ is_valid' = Some(validate_all_result(Self))
  /\ pc' = "returned"
  /\ UNCHANGED <<rules_dir, stats, errors, warnings, mdc_files, queue, calls,
                 banner, exit_code, run, first_report, input, ret>>

\* print_report, lines 153-188
PrintReport ==
  /\ pc = "returned"
  /\ banner' = Some(closing_message(Self))
  /\ pc' = "reported"
  /\ UNCHANGED <<rules_dir, stats, errors, warnings, mdc_files, queue, calls,
                 is_valid, exit_code, run, first_report, input, ret>>

\* what a run leaves behind
Report(code) ==
  [stats |-> stats, errors |-> errors, warnings |-> warnings, exit_code |-> code]

\* line 196
Exit ==
  /\ pc = "reported"
  /\ exit_code' = Some(exit_status(is_valid[1]))
  /\ pc' = "exited"
  /\ first_report' = IF run = 1 THEN Some(Report(exit_status(is_valid[1])))
                     ELSE first_report
  /\ UNCHANGED <<rules_dir, stats, errors, warnings, mdc_files, queue, calls,
                 is_valid, banner, run, input, ret>>

\* the program is started again on the unchanged directory, lines 190-191
RunAgain ==
  /\ pc = "exited"
  /\ run < MaxRuns
  /\ run' = run + 1
  /\ pc' = "main"
  /\ stats' = InitStats /\ errors' = <<>> /\ warnings' = <<>>
  /\ mdc_files' = <<>> /\ queue' = <<>> /\ calls' = <<>>
  /\ is_valid' = None /\ banner' = None /\ exit_code' = None
  /\ input' = None /\ ret' = None
  /\ UNCHANGED <<rules_dir, first_report>>

Next ==
  \/ ValidateAllEntry
  \/ ValidateNext
  \/ ValidateAllReturn
  \/ PrintReport
  \/ Exit
  \/ RunAgain

Spec == Init /\ [][Next]_vars

(***************************************************************************)
(* FileSpec: validate_file called on one validator, file after file        *)
(***************************************************************************)
InitFile ==
  /\ rules_dir = [exists |-> TRUE, files |-> <<>>]
  /\ pc = "caller"
  /\ run = 1
  /\ first_report = None
  /\ Fresh

\* a call of validate_file, lines 26-123, on the next path
CallValidateFile ==
  /\ pc = "caller"
  /\ Len(calls) < MaxCalls
  /\ \E file \in InputFiles :
       \E r \in {validate_file(Self, Len(calls) + 1, file)} :
           /\ stats' = r.self.stats
           /\ errors' = r.self.errors
           /\ warnings' = r.self.warnings
           /\ input' = Some(file)
           /\ ret' = Some(r.result)
           /\ calls' = Append(calls, Len(calls) + 1)
  /\ pc' = "got"
  /\ UNCHANGED <<rules_dir, mdc_files, queue, is_valid, banner, exit_code, run,
                 first_report>>

\* the caller is done with the returned pair (lines 143-149)
ConsumeResult ==
  /\ pc = "got"
  /\ pc' = "caller"
  /\ input' = None
  /\ ret' = None
  /\ UNCHANGED <<rules_dir, stats, errors, warnings, mdc_files, queue, calls,
                 is_valid, banner, exit_code, run, first_report>>

NextFile ==
  \/ CallValidateFile
  \/ ConsumeResult

FileSpec == InitFile /\ [][NextFile]_vars

(***************************************************************************)
(* Properties of main (Spec)                                               *)
(***************************************************************************)
Done == pc \in {"returned", "reported", "exited"}

Ascending(s) == \A i \in 1..(Len(s) - 1) : s[i] < s[i + 1]

Range(s) == {s[i] : i \in 1..Len(s)}

\* C1: when main has exited, the exit status is 0 if no error was recorded
\* during the run and 1 otherwise; the warnings recorded play no part.
C1_ExitStatus ==
  pc = "exited" =>
    /\ exit_code \in {Some(0), Some(1)}
    /\ exit_code = Some(0) <=> Len(errors) = 0

\* a run that recorded a warning and exits with status 0
C1_Witness ==
  /\ pc = "exited"
  /\ exit_code = Some(0)
  /\ Len(warnings) > 0
  /\ stats.valid_files = 2

\* C2: when the directory is missing or holds no .mdc file, validate_all
\* records exactly one error, calls validate_file on nothing (all counters 0,
\* no warning), returns False, and the run exits with status 1.
C2_NothingToValidate ==
  (Done /\ DOMAIN rules_dir.files = {}) =>
    /\ Len(errors) = 1
    /\ stats = InitStats
    /\ warnings = <<>>
    /\ calls = <<>>
    /\ is_valid = Some(FALSE)
    /\ pc = "exited" => exit_code = Some(1)

\* the directory exists, holds no file, and the run has exited
C2_Witness ==
  /\ pc = "exited"
  /\ rules_dir.exists
  /\ DOMAIN rules_dir.files = {}
  /\ exit_code = Some(1)
  /\ errors = <<Msg("no_mdc_files", RulesDirPath)>>

\* C6: validate_file is called on the discovered files in ascending path
\* order, one after the other, whatever order rglob returned them in; when
\* validate_all has returned every file was validated exactly once, failures
\* or not; a later run over the same directory ends with the stats, errors,
\* warnings and exit status of the first.
C6_SortedAndReproducible ==
  /\ Ascending(calls)
  /\ pc = "loop" =>
       /\ Ascending(calls \o queue)
       /\ Range(calls \o queue) = DOMAIN rules_dir.files
  /\ (Done /\ DOMAIN rules_dir.files # {}) =>
       /\ Range(calls) = DOMAIN rules_dir.files
       /\ Len(calls) = Cardinality(DOMAIN rules_dir.files)
       /\ stats.total_files = Len(calls)
  /\ (run > 1 /\ pc = "exited") => Report(exit_code[1]) = first_report[1]

\* a second run that was handed the files in descending order, whose first
\* file failed, and that validated the second file all the same
C6_Witness ==
  /\ run = 2
  /\ pc = "exited"
  /\ Len(mdc_files) = 2
  /\ mdc_files[1] > mdc_files[2]
  /\ calls = <<1, 2>>
  /\ Len(errors) >= 1
  /\ errors[1].path = 1
  /\ stats.valid_files = 1
  /\ first_report = Some(Report(1))

(***************************************************************************)
(* Properties of validate_file (FileSpec)                                  *)
(***************************************************************************)
\* the step that is a call of validate_file
Called == pc = "caller" /\ pc' = "got"

\* the file is readable and its header block is delimited
Delimited(file) == file.readable /\ frontmatter_match(file.content) # None

\* the header block of such a file, and what follows it
HeaderOf(file) == frontmatter_match(file.content)[1].group
BodyOf(file) ==
  SubSeq(file.content, frontmatter_match(file.content)[1].end + 1, Len(file.content))

\* the indexes of the lines of h that start with key
KeyLines(h, key) == {p \in 1..Len(h) : AtLineStart(h, p) /\ h[p] = key}

\* the text after the key of line p, up to the end of that line
RestOfLine(h, p) == SubSeq(h, p + 1, LineEnd(h, p) - 1)

ErrorsAdded   == Len(errors') - Len(errors)
WarningsAdded == Len(warnings') - Len(warnings)

\* C3: a readable file that does not start with '---' is returned invalid,
\* adds exactly one error and no warning, total_files and invalid_files grow
\* by 1 and no other counter changes, whatever else the file holds.
C3_NoHeader ==
  [][(Called /\ input'[1].readable /\ ~(Len(input'[1].content) >= 1
                                          /\ input'[1].content[1] = DASHES)) =>
       /\ ret'[1].is_valid = FALSE
       /\ ErrorsAdded = 1
       /\ SubSeq(errors', 1, Len(errors)) = errors
       /\ warnings' = warnings
       /\ stats' = [stats EXCEPT !.total_files = @ + 1, !.invalid_files = @ + 1]]_vars

\* the second call, on a file with text before a complete header block
C3_Witness ==
  /\ pc = "got"
  /\ Len(calls) = 2
  /\ input = Some(File(<<TXT, NL, DASHES, NL, KDESC, SP, TXT, NL, KAA, SP, "true",
                         NL, DASHES, NL, TXT, NL>>))
  /\ ret[1].is_valid = FALSE
  /\ stats.total_files = 2
  /\ stats.invalid_files = 1
  /\ Len(errors) = 1

WrittenContents == {Render(w) : w \in Written}

\* C5: a file written to the schema is returned valid, and the parsed
\* description, alwaysApply and globs are the values written.
C5_RoundTrip ==
  (pc = "got" /\ input[1].readable /\ input[1].content \in WrittenContents) =>
    \A w \in Written :
      Render(w) = input[1].content =>
        /\ ret[1].is_valid
        /\ ret[1].frontmatter = WrittenValues(w)

\* the texts of the files written to the schema with an empty body
WrittenEmptyBody == {Render(w) : w \in {x \in Written : x.body = <<>>}}

\* C7: a call returns invalid exactly when it added an error; a warning is
\* added exactly for a delimited header followed by an empty or blank body,
\* valid file or not; a file written to the schema with an empty body is
\* returned valid, counted in valid_files, with one warning.
C7_ErrorsInvalidate ==
  [][Called =>
       /\ ret'[1].is_valid = FALSE <=> ErrorsAdded >= 1
       /\ WarningsAdded \in {0, 1}
       /\ WarningsAdded = 1 <=>
            (Delimited(input'[1]) /\ strip(BodyOf(input'[1])) = <<>>)
       /\ (input'[1].readable /\ input'[1].content \in WrittenEmptyBody) =>
            /\ ret'[1].is_valid
            /\ stats'.valid_files = stats.valid_files + 1
            /\ WarningsAdded = 1]_vars

\* a valid file with an empty body, after an invalid file with a blank body
C7_Witness ==
  /\ pc = "got"
  /\ Len(calls) = 2
  /\ input[1].readable
  /\ input[1].content \in WrittenEmptyBody
  /\ ret[1].is_valid
  /\ stats.valid_files = 1
  /\ stats.invalid_files = 1
  /\ Len(warnings) = 2
  /\ Len(errors) = 1

\* the '[' of a globs list stands on the line of 'globs:' and its ']' on a
\* later line of the header h
MultiLineList(h) ==
  \E p \in KeyLines(h, KGLOBS) :
    \E w \in (p + 1)..(LineEnd(h, p) - 1) :
      /\ h[w] = LB
      /\ \A k \in (p + 1)..(w - 1) : h[k] = SP
      /\ \A k \in (w + 1)..(LineEnd(h, p) - 1) : h[k] # RB
      /\ \E r \in (LineEnd(h, p) + 1)..Len(h) : h[r] = RB

\* the '[' and the ']' of a globs list both stand on the line of 'globs:'
OneLineList(h) ==
  \E p \in KeyLines(h, KGLOBS) :
    \E w \in (p + 1)..(LineEnd(h, p) - 1) :
      /\ h[w] = LB
      /\ \A k \in (p + 1)..(w - 1) : h[k] = SP
      /\ \E r \in (w + 1)..(LineEnd(h, p) - 1) : h[r] = RB

WrittenMultiLine ==
  {<<Render(w), w.globs[1]>> :
     w \in {x \in Written : /\ x.multiline
                            /\ x.globs # None
                            /\ Range(x.globs[1]) \subseteq PlainItems}}

C9_SingleLineDescription ==
  (pc = "got" /\ Delimited(input[1])) =>
    LET h == HeaderOf(input[1])
        description == ret[1].frontmatter.description
    IN  /\ description # None =>
             \E p \in KeyLines(h, KDESC) : description[1] = desc_value(RestOfLine(h, p))
        /\ (/\ KeyLines(h, KDESC) # {}
            /\ \A p \in KeyLines(h, KDESC) : strip(RestOfLine(h, p)) = <<>>) =>
             ~ret[1].is_valid

\* C10, in every state: total_files = valid_files + invalid_files, and the
\* two missing-property counters do not exceed invalid_files.
C10_Balance ==
  /\ stats.total_files = stats.valid_files + stats.invalid_files
  /\ stats.files_without_description <= stats.invalid_files
  /\ stats.files_without_alwaysApply <= stats.invalid_files

\* C10, in every call: total_files grows by 1 and exactly one of valid_files
\* and invalid_files grows by 1.
C10_OneCount ==
  Called =>
    /\ stats'.total_files = stats.total_files + 1
    /\ \/ /\ stats'.valid_files = stats.valid_files + 1
          /\ stats'.invalid_files = stats.invalid_files
       \/ /\ stats'.valid_files = stats.valid_files
          /\ stats'.invalid_files = stats.invalid_files + 1

\* C10: the counters balance after any sequence of calls of validate_file,
\* and each call counts its file once, as valid or as invalid.
C10_Counters == []C10_Balance /\ [][C10_OneCount]_vars

\* two calls, one file valid and one lacking both required properties
C10_Witness ==
  /\ pc = "got"
  /\ Len(calls) = 2
  /\ stats.total_files = 2
  /\ stats.valid_files = 1
  /\ stats.invalid_files = 1
  /\ stats.files_without_description = 1
  /\ stats.files_without_alwaysApply = 1

====
